---- MODULE Spec2Model ----
(***************************************************************************)
(* Receipt verification pipeline of confirmit-hedera: the orchestrator's   *)
(* run state machine, the flat progress emitter that writes the receipt    *)
(* document, the document listener of useFirebaseReceiptProgress and the   *)
(* callbacks it invokes; the manipulation scorer and its verdict bands;    *)
(* the suspicious regions list of ELAHeatmapViewer; the AgentMarketplace   *)
(* contract.                                                               *)
(***************************************************************************)
EXTENDS Integers, Sequences, FiniteSets, TLC

\* ---------------------------------------------------------------- bounds
NumAnalyzers == 2        \* analyzers fanned out in ANALYZING
MaxSignal == 2           \* levels above zero of a normalized detector signal
MaxRegions == 3          \* suspicious regions handed to the viewer
MaxEvents == 3           \* progress events an agent emits with details,
                         \* callbacks a listener makes
MaxRequests == 2         \* service requests created in the marketplace
MaxFindings == 3         \* forensic findings handed to the findings display

Analyzers == 1..NumAnalyzers

\* ------------------------------------------------------- value universes
Absent == "absent"

\* Python value kinds an agent may put into a details dict.
Primitive == {"str", "int", "float", "bool"}
NonPrimitive == {"dict", "list"}
Kinds == Primitive \cup NonPrimitive

DetailKeys == {"merchant", "amount", "raw", "error_kind"}

NoDetails == [k \in DetailKeys |-> Absent]

\* f'progress_detail_{key}'
DetailField(k) == "progress_detail_" \o k

DetailFields == {DetailField(k) : k \in DetailKeys}

\* key.replace('progress_detail_', '')
DetailKey(f) == CHOOSE k \in DetailKeys : DetailField(k) = f

\* Details dicts the agents attach to their sub-progress events.
DetailInputs ==
    { [NoDetails EXCEPT !["merchant"] = "str"],
      [NoDetails EXCEPT !["merchant"] = "dict", !["amount"] = "int"] }

\* ------------------------------------------------------ run state machine
Stages == <<"CREATED", "LOADING", "ANALYZING", "AGGREGATING", "SCORING", "COMPLETE">>

Terminal == {"COMPLETE", "FAILED"}

StageRank(s) ==
    CASE s = "CREATED" -> 0
      [] s = "LOADING" -> 1
      [] s = "ANALYZING" -> 2
      [] s = "AGGREGATING" -> 3
      [] s = "SCORING" -> 4
      [] s = "COMPLETE" -> 5
      [] s = "FAILED" -> 5
      [] OTHER -> 0

\* Percentage the orchestrator reports when it enters a stage.
StagePct(s) ==
    CASE s = "LOADING" -> 10
      [] s = "ANALYZING" -> 20
      [] s = "AGGREGATING" -> 70
      [] s = "SCORING" -> 85
      [] s = "COMPLETE" -> 100
      [] OTHER -> 0

\* Percentage analyzer a reports for its own sub-progress.
SubPct(a) == 20 + 10 * a

Settled == {"ok", "failed", "timeout", "cancelled"}

ErrorKinds == {"DecodeError", "AnalyzerError", "AggregationError", "TimeoutError", "Cancelled"}

VARIABLES
    runState,    \* state of the AnalysisRun
    analyzer,    \* analyzer task -> idle / running / ok / failed / timeout / cancelled
    reported,    \* analyzer tasks that have reported their sub-progress
    finding,     \* analyzer task -> Absent, or its DetectorFinding (confidence, signal)
    clock,       \* per-run event sequence counter: events emitted so far
    doc,         \* the receipt document
    pending,     \* contents of the document not yet handed to the listener
    lastProgress,\* argument of the last onProgress call, as an option
    nDistinct,   \* number of different events passed to onProgress
    nComplete,   \* number of onComplete calls
    nError,      \* number of onError calls of the failure branch
    completeData,\* argument of the last onComplete call
    errorData,   \* argument of the last onError call
    isListening, \* the hook's isListening state
    live         \* the snapshot subscription is active

\* The manipulation scorer: one run on an image, and the run before it.
VARIABLES
    image,       \* detector -> level of the signal the image gives that detector
    context,     \* optional context of the run: merchant name, claimed amount
    detected,    \* detector -> Absent, or the finding it returned
    firstDone,   \* the detector that finished first in this run, as an option
    verdict,     \* the ManipulationVerdict of this run, as an option
    prior        \* the earlier run on the same image, as an option

\* The suspicious regions list of ELAHeatmapViewer.
VARIABLES
    suspiciousRegions, \* the suspiciousRegions prop: the array the backend returned
    listed             \* the rows of the rendered list, as an option

\* The details the emitter attached to each event it wrote, by timestamp.
VARIABLES attached

\* The AgentMarketplace contract.
VARIABLES
    agents,          \* mapping(address => Agent)
    requests,        \* mapping(uint256 => ServiceRequest): the requests created, by id
    agentsByService, \* mapping(ServiceType => address[])
    allAgents,       \* address[]
    requestCounter,  \* uint256
    balance,         \* the contract's balance
    completions      \* the completeService calls that succeeded, in order

\* The agent activity list of AnalysisProgress.
VARIABLES
    agentStatuses, \* agent -> its status in the list and, once run, its message
    currentAgent,  \* the currentAgent prop, as an option
    message        \* the message prop

\* The subscribe effect of useFirebaseReceiptProgress across receipts.
VARIABLES
    receiptId,      \* the receiptId option of the hook, as an option
    mounted,        \* the component that calls the hook is mounted
    subscriptions,  \* receipts whose document has an onSnapshot listener attached
    unsubscribeRef, \* unsubscribeRef.current: the receipt it unsubscribes, as an option
    invoked         \* the callbacks invoked so far: the receipt and the callback

\* The summary banner of ForensicFindingsDisplay.
VARIABLES
    findings, \* the findings prop: the severity of each finding, in order
    banner    \* the rendered banner, as an option

pipelineVars == <<runState, analyzer, reported, finding, clock, doc, pending,
                  lastProgress, nDistinct,
                  nComplete, nError, completeData, errorData, isListening, live>>
scorerVars == <<image, context, detected, firstDone, verdict, prior>>
viewerVars == <<suspiciousRegions, listed>>
marketVars == <<agents, requests, agentsByService, allAgents, requestCounter,
                balance, completions>>

\* Everything outside the run pipeline, and everything outside the scorer.
displayVars == <<agentStatuses, currentAgent, message>>
listenerVars == <<receiptId, mounted, subscriptions, unsubscribeRef, invoked>>
bannerVars == <<findings, banner>>
uiVars == <<displayVars, listenerVars, bannerVars>>
asideVars == <<scorerVars, viewerVars, attached, marketVars, uiVars>>
notScorerVars == <<pipelineVars, viewerVars, attached, marketVars, uiVars>>
notViewerVars == <<pipelineVars, scorerVars, attached, marketVars, uiVars>>
notMarketVars == <<pipelineVars, scorerVars, viewerVars, attached, uiVars>>

vars == <<pipelineVars, asideVars>>

orchVars == <<runState, analyzer, reported, finding>>
hookVars == <<lastProgress, nDistinct,
              nComplete, nError, completeData, errorData, isListening, live>>

\* The receipt document as the backend creates it: status 'processing',
\* no progress field, no analysis, no error, no anchor. An option is a
\* sequence of length at most one.
InitDoc ==
    [ progress_agent |-> Absent,
      progress_stage |-> Absent,
      progress_message |-> Absent,
      progress_percentage |-> 0,
      progress_timestamp |-> 0,
      progress_detail_merchant |-> Absent,
      progress_detail_amount |-> Absent,
      progress_detail_raw |-> Absent,
      progress_detail_error_kind |-> Absent,
      status |-> "processing",
      analysis |-> <<>>,
      error |-> <<>>,
      hederaAnchor |-> <<>> ]

\* ------------------------------------------------------ progress emitter
\* Variant of Coerce that passes every value through unchanged.
CoerceIdentity(v) == v

\* str(v) if not isinstance(v, (str, int, float, bool)) else v
Coerce(v) == IF v \in Primitive THEN v ELSE "str"

HasDetails(d) == \E k \in DetailKeys : d[k] # Absent

\* Sanitization of a details dict: every value coerced to a primitive; when
\* the sanitizer raises, the whole dict becomes one truncated string under
\* the key 'raw'. An empty dict stays empty.
SanitizeDetails(d, raised) ==
    IF ~HasDetails(d) THEN NoDetails
    ELSE IF raised THEN [NoDetails EXCEPT !["raw"] = "str"]
    ELSE [k \in DetailKeys |-> IF d[k] = Absent THEN Absent ELSE Coerce(d[k])]

\* Variant of FlatUpdate that leaves progress_stage out of the update.
FlatUpdateNoStage(d, ev, sanitized) ==
    [d EXCEPT
        !.progress_agent = ev.agent,
        !.progress_message = ev.message,
        !.progress_percentage = ev.pct,
        !.progress_timestamp = ev.ts]

\* The flat update: six top-level progress fields, and one top-level field
\* progress_detail_<key> per detail. update() leaves every other field of
\* the document as it was.
FlatUpdate(d, ev, sanitized) ==
    LET update_data ==
            [f \in DOMAIN d |->
                IF f \in DetailFields /\ sanitized[DetailKey(f)] # Absent
                THEN Coerce(sanitized[DetailKey(f)])
                ELSE d[f]]
    IN [update_data EXCEPT
            !.progress_agent = ev.agent,
            !.progress_stage = ev.stage,
            !.progress_message = ev.message,
            !.progress_percentage = ev.pct,
            !.progress_timestamp = ev.ts]

Event(agent, stage, pct, ts, details) ==
    [agent |-> agent, stage |-> stage, message |-> stage, pct |-> pct,
     ts |-> ts, details |-> details]

\* emit(): sanitize the details and update the document.
EmitProgress(d, ev, raised) ==
    FlatUpdate(d, ev, SanitizeDetails(ev.details, raised))

\* Every update of the document reaches an active subscription as one more
\* snapshot.
Publish(docs) == IF live THEN pending \o docs ELSE pending

\* --------------------------------------------------- result persistence
\* The backend stores the analysis and marks the receipt completed.
PersistResult(d, result) ==
    [d EXCEPT !.status = "completed", !.analysis = <<result>>]

\* A failure result carries the error kind and a message, nothing else.
FailureResult(kind) == [error_kind |-> kind, message |-> kind]

PersistFailure(d, kind) ==
    [d EXCEPT !.status = "failed", !.error = <<FailureResult(kind)>>]

\* POST /api/receipts/{id}/anchor stores the anchor on the receipt.
PersistAnchor(d) ==
    [d EXCEPT !.hederaAnchor = <<"anchored">>]

\* ------------------------------------------------------------- analyzers
AnalyzerName(a) ==
    CASE a = 1 -> "clone_detection"
      [] a = 2 -> "ela_analysis"
      [] a = 3 -> "noise_inconsistency"
      [] a = 4 -> "compression_anomalies"
      [] OTHER -> "edge_consistency"

\* Point budget of each detector.
Budget(a) ==
    CASE a = 1 -> 40
      [] a = 2 -> 40
      [] a = 3 -> 30
      [] a = 4 -> 20
      [] OTHER -> 10

Min(x, y) == IF x < y THEN x ELSE y

RECURSIVE SumSignals(_, _)
SumSignals(f, n) ==
    IF n = 0 THEN 0
    ELSE SumSignals(f, n - 1) + (IF f[n] = <<>> THEN 0 ELSE f[n][1].signal)

\* Sum of the detectors' contributions, capped at 100.
ManipulationScore(f) == Min(100, SumSignals(f, NumAnalyzers))

\* A finding of an analyzer that ran, and of one that failed or timed out.
OkFinding(a, signal) == [detector |-> AnalyzerName(a), confidence |-> 100, signal |-> signal]
FailedFinding(a) == [detector |-> AnalyzerName(a), confidence |-> 0, signal |-> 0]

\* Variant of AllSettled that is satisfied by the first task to settle.
SomeSettled == \E a \in Analyzers : analyzer[a] \in Settled

AllSettled == \A a \in Analyzers : analyzer[a] \in Settled

\* asyncio.gather(..., return_exceptions=True): an exception of one task is
\* returned as that task's result instead of propagating to the caller.
\* Variant: gather() without return_exceptions.
ReturnExceptionsOff == FALSE

ReturnExceptions == TRUE

\* ---------------------------------------------------------- orchestrator
\* ---------------------------------------------------------------- scorer
\* The scored components: the four detectors and the metadata risk.
NumDetectors == 5

Detectors == 1..NumDetectors

\* A run may come with a merchant name and a claimed amount.
NoContext == [merchant |-> <<>>, amount |-> <<>>]
Contexts == {NoContext, [merchant |-> <<"Shoprite">>, amount |-> <<5000>>]}

\* No scoring run is under way.
ScorerAtRest ==
    /\ image = [d \in Detectors |-> 0]
    /\ context = NoContext
    /\ detected = [d \in Detectors |-> <<>>]
    /\ firstDone = <<>>
    /\ verdict = <<>>
    /\ prior = <<>>

\* The pipeline after construction: a created run, the receipt document as
\* the backend stored it, an attached listener that has seen nothing.
PipelineCreated ==
    /\ runState = "CREATED"
    /\ analyzer = [a \in Analyzers |-> "idle"]
    /\ reported = {}
    /\ finding = [a \in Analyzers |-> <<>>]
    /\ clock = 0
    /\ doc = InitDoc
    /\ pending = <<InitDoc>>
    /\ lastProgress = <<>>
    /\ nDistinct = 0
    /\ nComplete = 0
    /\ nError = 0
    /\ completeData = <<>>
    /\ errorData = <<>>
    /\ isListening = TRUE
    /\ live = TRUE

\* ----------------------------------------------------------- marketplace
ZeroAddress == "0x0"
Deployer == "deployer"
Accounts == {Deployer, "agentA", "agentB", "client"}

\* enum ServiceType
ServiceType == <<"VISION_ANALYSIS", "FORENSIC_ANALYSIS", "METADATA_VALIDATION",
                 "REPUTATION_LOOKUP", "REASONING_SYNTHESIS">>
ServiceTypes == {ServiceType[i] : i \in DOMAIN ServiceType}

\* enum RequestStatus
RequestStatus == <<"PENDING", "ACCEPTED", "COMPLETED", "DISPUTED", "REFUNDED">>

\* The value of a mapping at a key never written.
ZeroAgent ==
    [agentAddress |-> ZeroAddress, agentId |-> "", serviceType |-> ServiceType[1],
     pricePerRequest |-> 0, totalRequests |-> 0, successfulRequests |-> 0,
     reputationScore |-> 0, isActive |-> FALSE, registeredAt |-> 0]

ZeroRequest ==
    [requestId |-> 0, requester |-> ZeroAddress, provider |-> ZeroAddress,
     serviceType |-> ServiceType[1], amount |-> 0, dataHash |-> "",
     status |-> RequestStatus[1], createdAt |-> 0, completedAt |-> 0]

\* constructor(): platformWallet = msg.sender; nothing registered or requested.
MarketDeployed ==
    /\ agents = [a \in Accounts |-> ZeroAgent]
    /\ requests = <<>>
    /\ agentsByService = [t \in ServiceTypes |-> <<>>]
    /\ allAgents = <<>>
    /\ requestCounter = 0
    /\ balance = 0
    /\ completions = <<>>

\* The viewer is not mounted.
ViewerAtRest ==
    /\ suspiciousRegions = <<>>
    /\ listed = <<>>

\* const agentOrder = ['vision', 'forensic', 'metadata', 'reputation']
agentOrder == <<"vision", "forensic", "metadata", "reputation">>
DisplayedAgents == {agentOrder[i] : i \in DOMAIN agentOrder}

\* useState: every listed agent pending, no message (the name field of an
\* entry never changes and is left out).
InitialAgentStatuses == [a \in DisplayedAgents |-> [status |-> "pending", message |-> <<>>]]

\* The activity list as first rendered, before any agent is current.
DisplayAtRest ==
    /\ agentStatuses = InitialAgentStatuses
    /\ currentAgent = <<>>
    /\ message = ""

\* The receipt the hook follows is not tracked.
ListenerAtRest ==
    /\ receiptId = <<>>
    /\ mounted = FALSE
    /\ subscriptions = {}
    /\ unsubscribeRef = <<>>
    /\ invoked = <<>>

\* No findings are displayed.
BannerAtRest ==
    /\ findings = <<>>
    /\ banner = <<>>

UiAtRest == DisplayAtRest /\ ListenerAtRest /\ BannerAtRest

Init ==
    /\ PipelineCreated
    /\ MarketDeployed
    /\ ScorerAtRest
    /\ UiAtRest
    /\ ViewerAtRest
    /\ attached = <<>>

\* A transition into stage s emits one progress event for s.
Enter(s) ==
    LET ev == Event("orchestrator", s, StagePct(s), clock + 1, NoDetails) IN
    /\ runState' = s
    /\ clock' = clock + 1
    /\ doc' = EmitProgress(doc, ev, FALSE)
    /\ pending' = Publish(<<doc'>>)

\* Variant of Fatal that keeps what the finished analyzers produced.
FatalKeepFindings(kind) ==
    LET ev == Event("orchestrator", "FAILED", doc.progress_percentage, clock + 1,
                    [NoDetails EXCEPT !["error_kind"] = "str"])
        d1 == EmitProgress(doc, ev, FALSE) IN
    /\ runState' = "FAILED"
    /\ analyzer' = [a \in Analyzers |->
                        IF analyzer[a] = "running" THEN "cancelled" ELSE analyzer[a]]
    /\ clock' = clock + 1
    /\ doc' = PersistFailure(d1, kind)
    /\ pending' = Publish(<<d1, doc'>>)
    /\ UNCHANGED <<finding, reported, hookVars, asideVars>>

\* A fatal error: in-flight analyzers are cancelled, what the finished ones
\* produced is dropped, the FAILED event is emitted and the failure result
\* is stored.
Fatal(kind) ==
    LET ev == Event("orchestrator", "FAILED", doc.progress_percentage, clock + 1,
                    [NoDetails EXCEPT !["error_kind"] = "str"])
        d1 == EmitProgress(doc, ev, FALSE) IN
    /\ runState' = "FAILED"
    /\ analyzer' = [a \in Analyzers |->
                        IF analyzer[a] = "running" THEN "cancelled" ELSE analyzer[a]]
    /\ finding' = [a \in Analyzers |-> <<>>]
    /\ clock' = clock + 1
    /\ doc' = PersistFailure(d1, kind)
    /\ pending' = Publish(<<d1, doc'>>)
    /\ UNCHANGED <<reported, hookVars, asideVars>>

StartLoading ==
    /\ runState = "CREATED"
    /\ Enter("LOADING")
    /\ UNCHANGED <<analyzer, reported, finding, hookVars, asideVars>>

\* normalize() succeeded: fan the analyzers out.
LoadOk ==
    /\ runState = "LOADING"
    /\ Enter("ANALYZING")
    /\ analyzer' = [a \in Analyzers |-> "running"]
    /\ UNCHANGED <<reported, finding, hookVars, asideVars>>

\* normalize() failed.
LoadFail ==
    /\ runState = "LOADING"
    /\ Fatal("DecodeError")

\* An analyzer reports sub-progress through the emitter.
AnalyzerProgress(a) ==
    /\ runState = "ANALYZING"
    /\ analyzer[a] = "running"
    /\ a \notin reported
    /\ \E d \in DetailInputs, raised \in BOOLEAN :
          LET ev == Event(AnalyzerName(a), "ANALYZING", SubPct(a), clock + 1, d) IN
          /\ (raised => \E k \in DetailKeys : d[k] \in NonPrimitive)
          /\ clock' = clock + 1
          /\ doc' = EmitProgress(doc, ev, raised)
          /\ pending' = Publish(<<doc'>>)
    /\ reported' = reported \cup {a}
    /\ UNCHANGED <<runState, analyzer, finding, hookVars, asideVars>>

AnalyzerSucceed(a) ==
    /\ runState = "ANALYZING"
    /\ analyzer[a] = "running"
    /\ \E sig \in {0, Budget(a)} :
          finding' = [finding EXCEPT ![a] = <<OkFinding(a, sig)>>]
    /\ analyzer' = [analyzer EXCEPT ![a] = "ok"]
    /\ UNCHANGED <<runState, reported, clock, doc, pending, hookVars, asideVars>>

\* An analyzer raised, or ran into its own timeout.
AnalyzerFail(a, how) ==
    /\ runState = "ANALYZING"
    /\ analyzer[a] = "running"
    /\ IF ReturnExceptions
       THEN /\ analyzer' = [analyzer EXCEPT ![a] = how]
            /\ finding' = [finding EXCEPT ![a] = <<FailedFinding(a)>>]
            /\ UNCHANGED <<runState, reported, clock, doc, pending, hookVars, asideVars>>
       ELSE Fatal("AnalyzerError")

AnalyzerThrow(a) == AnalyzerFail(a, "failed")

AnalyzerTimeout(a) == AnalyzerFail(a, "timeout")

\* gather() has returned: every analyzer task has settled.
BeginAggregate ==
    /\ runState = "ANALYZING"
    /\ AllSettled
    /\ Enter("AGGREGATING")
    /\ UNCHANGED <<analyzer, reported, finding, hookVars, asideVars>>

AggregateOk ==
    /\ runState = "AGGREGATING"
    /\ Enter("SCORING")
    /\ UNCHANGED <<analyzer, reported, finding, hookVars, asideVars>>

AggregateFail ==
    /\ runState = "AGGREGATING"
    /\ Fatal("AggregationError")

\* The scorer finishes: the COMPLETE event is emitted and the result stored.
ScoreDone ==
    LET ev == Event("orchestrator", "COMPLETE", StagePct("COMPLETE"), clock + 1, NoDetails)
        result == [manipulation_score |-> ManipulationScore(finding)]
        d1 == EmitProgress(doc, ev, FALSE) IN
    /\ runState = "SCORING"
    /\ runState' = "COMPLETE"
    /\ clock' = clock + 1
    /\ doc' = PersistResult(d1, result)
    /\ pending' = Publish(<<d1, doc'>>)
    /\ UNCHANGED <<analyzer, reported, finding, hookVars, asideVars>>

\* Variant of Cancel that does not look at the state of the run.
CancelAnyState == clock < 8 /\ Fatal("Cancelled")

\* The caller cancels the run.
Cancel ==
    /\ runState \notin Terminal
    /\ Fatal("Cancelled")

\* The run-level timeout expires.
RunTimeout ==
    /\ runState \notin Terminal
    /\ Fatal("TimeoutError")

\* The user anchors the finished receipt on Hedera.
AnchorToHedera ==
    /\ runState = "COMPLETE"
    /\ doc.hederaAnchor = <<>>
    /\ doc' = PersistAnchor(doc)
    /\ pending' = Publish(<<doc'>>)
    /\ UNCHANGED <<orchVars, clock, hookVars, asideVars>>

\* ------------------------------------------------- document listener hook
\* Variant of ProgressOf that reports progress only while the receipt is
\* still being processed.
ProgressOfWhileProcessing(data) ==
    IF data.progress_agent # Absent /\ data.progress_stage # Absent
       /\ data.status = "processing"
    THEN << [ agent |-> data.progress_agent,
              stage |-> data.progress_stage,
              message |-> IF data.progress_message = Absent THEN "" ELSE data.progress_message,
              progress |-> data.progress_percentage,
              timestamp |-> data.progress_timestamp,
              details |-> [k \in DetailKeys |-> data[DetailField(k)]] ] >>
    ELSE <<>>

\* if (data.progress_agent && data.progress_stage): the AgentProgress the
\* hook rebuilds from the flat fields, as an option.
ProgressOf(data) ==
    IF data.progress_agent # Absent /\ data.progress_stage # Absent
    THEN << [ agent |-> data.progress_agent,
              stage |-> data.progress_stage,
              message |-> IF data.progress_message = Absent THEN "" ELSE data.progress_message,
              progress |-> data.progress_percentage,
              timestamp |-> data.progress_timestamp,
              details |-> [k \in DetailKeys |-> data[DetailField(k)]] ] >>
    ELSE <<>>

\* if (data.status === 'completed' && data.analysis)
CompleteOf(data) ==
    IF data.status = "completed" /\ data.analysis # <<>> THEN data.analysis ELSE <<>>

\* if (data.status === 'failed' && data.error)
ErrorOf(data) ==
    IF data.status = "failed" /\ data.error # <<>> THEN data.error ELSE <<>>

\* The snapshot callback: the progress branch, then the completion branch,
\* then the failure branch, each on its own condition.
HandleSnapshot(data) ==
    LET p == ProgressOf(data)
        c == CompleteOf(data)
        e == ErrorOf(data) IN
    /\ lastProgress' = IF p # <<>> THEN p ELSE lastProgress
    /\ nDistinct' = IF p # <<>> /\ (lastProgress = <<>>
                                     \/ lastProgress[1].timestamp # p[1].timestamp)
                    THEN nDistinct + 1 ELSE nDistinct
    /\ nComplete' = IF c # <<>> THEN nComplete + 1 ELSE nComplete
    /\ completeData' = IF c # <<>> THEN c ELSE completeData
    /\ nError' = IF e # <<>> THEN nError + 1 ELSE nError
    /\ errorData' = IF e # <<>> THEN e ELSE errorData

\* onSnapshot hands the listener a later content of the document; contents
\* written in between may never be handed over.
Deliver ==
    /\ live
    /\ \E j \in 1..Len(pending) :
          /\ pending' = SubSeq(pending, j + 1, Len(pending))
          /\ HandleSnapshot(pending[j])
    /\ UNCHANGED <<orchVars, clock, doc, isListening, live, asideVars>>

\* The error callback of onSnapshot: the subscription is over.
ListenerError ==
    /\ live
    /\ live' = FALSE
    /\ isListening' = FALSE
    /\ errorData' = <<[error_kind |-> "ListenerError", message |-> "ListenerError"]>>
    /\ pending' = <<>>
    /\ UNCHANGED <<orchVars, clock, doc, lastProgress, nDistinct,
                   nComplete, nError, completeData, asideVars>>

Next ==
    \/ StartLoading
    \/ LoadOk
    \/ LoadFail
    \/ \E a \in Analyzers : AnalyzerProgress(a)
    \/ \E a \in Analyzers : AnalyzerSucceed(a)
    \/ \E a \in Analyzers : AnalyzerThrow(a)
    \/ \E a \in Analyzers : AnalyzerTimeout(a)
    \/ BeginAggregate
    \/ AggregateOk
    \/ AggregateFail
    \/ ScoreDone
    \/ Cancel
    \/ RunTimeout
    \/ AnchorToHedera
    \/ Deliver
    \/ ListenerError

Spec == Init /\ [][Next]_vars

\* =================================================================== claims

\* C1: for one run the subscriber receives at most one terminal
\* notification: onComplete and onError (failure branch) together are
\* invoked at most once, never both and never one of them twice.
C1_OneTerminalEvent == nComplete + nError <= 1

\* C2: the percentage of successive onProgress calls never decreases and
\* always lies in 0..100.
C2_ProgressMonotone ==
    [][ (lastProgress' # <<>>) =>
            /\ lastProgress'[1].progress \in 0..100
            /\ (lastProgress # <<>> =>
                    lastProgress'[1].progress >= lastProgress[1].progress) ]_vars

\* C3: the run changes state only forward by one stage, or to FAILED from a
\* non-terminal state; no step leaves COMPLETE or FAILED.
C3_StateOrder ==
    [][ (runState' # runState) =>
            /\ runState \notin Terminal
            /\ \/ runState' = "FAILED"
               \/ /\ runState' # "FAILED"
                  /\ StageRank(runState') = StageRank(runState) + 1 ]_vars

C3_Witness == runState = "COMPLETE" /\ doc.status = "completed"

\* C4: every content of the document the emitter has produced is flat: each
\* progress_detail_ field holds a primitive (string, number or bool).
FlatDoc(d) == \A f \in DetailFields : d[f] \in Primitive \cup {Absent}

C5_AnalyzerFailureNotFatal ==
    /\ runState = "FAILED" =>
            /\ doc.error # <<>>
            /\ doc.error[1].error_kind \in
                    {"DecodeError", "AggregationError", "TimeoutError", "Cancelled"}
    /\ \A a \in Analyzers :
            (analyzer[a] \in {"failed", "timeout"} /\ runState # "FAILED")
                => finding[a] = <<FailedFinding(a)>>

C5_Witness ==
    /\ runState = "COMPLETE"
    /\ doc.status = "completed"
    /\ \E a \in Analyzers : analyzer[a] = "failed"
    /\ \E a \in Analyzers : analyzer[a] = "timeout"

\* C6: while the run is aggregating, scoring or complete no analyzer task is
\* in flight: every one has succeeded, failed or timed out.
C6_SequentialAfterAnalyzers ==
    runState \in {"AGGREGATING", "SCORING", "COMPLETE"} =>
        \A a \in Analyzers : analyzer[a] \in {"ok", "failed", "timeout"}

C6_Witness ==
    /\ runState = "AGGREGATING"
    /\ \E a \in Analyzers : analyzer[a] = "timeout"
    /\ \E a \in Analyzers : analyzer[a] = "ok"

\* C7: a failed run has emitted the FAILED event and stored a failure result
\* of exactly error_kind and message; no analysis is stored or handed to
\* onComplete, and onError is preceded by the FAILED progress event.
C7_FailureResultOnly ==
    /\ runState = "FAILED" =>
            /\ doc.progress_stage = "FAILED"
            /\ doc.status = "failed"
            /\ doc.error # <<>>
            /\ DOMAIN doc.error[1] = {"error_kind", "message"}
            /\ doc.analysis = <<>>
            /\ nComplete = 0
            /\ completeData = <<>>
    /\ nError > 0 =>
            /\ runState = "FAILED"
            /\ lastProgress # <<>>
            /\ lastProgress[1].stage = "FAILED"
            /\ DOMAIN errorData[1] = {"error_kind", "message"}

C7_Witness == runState = "FAILED" /\ nError = 1 /\ lastProgress[1].stage = "FAILED"

\* C8: a cancelled run is FAILED with error kind Cancelled, no analyzer is
\* left running, and nothing the finished analyzers produced is kept,
\* stored or handed to onComplete.
IsCancelled == doc.error # <<>> /\ doc.error[1].error_kind = "Cancelled"

C8_CancelDiscardsPartial ==
    IsCancelled =>
        /\ runState = "FAILED"
        /\ doc.status = "failed"
        /\ \A a \in Analyzers : analyzer[a] # "running" /\ finding[a] = <<>>
        /\ doc.analysis = <<>>
        /\ \A i \in 1..Len(pending) : pending[i].analysis = <<>>
        /\ completeData = <<>>

C8_Witness ==
    /\ IsCancelled
    /\ \E a \in Analyzers : analyzer[a] = "ok"
    /\ \E a \in Analyzers : analyzer[a] = "cancelled"

C10_EveryEventDelivered == (live /\ pending = <<>>) => nDistinct = clock

\* ================================================================ scorer
Signals == 0..MaxSignal

\* A detector's signal, normalized to the detector's point budget.
Contribution(d, s) == (s * Budget(d)) \div MaxSignal

\* The findings the detectors return on an image.
DetectorFindings(img) ==
    [d \in Detectors |-> <<OkFinding(d, Contribution(d, img[d]))>>]

\* Variant of Score that does not cap the sum.
ScoreUncapped(f) == SumSignals(f, NumDetectors)

\* Weighted forensic scoring (0-100).
Score(f) == Min(100, SumSignals(f, NumDetectors))

\* Variant of VerdictBand whose top band starts above 70.
VerdictBandAbove(score) ==
    IF score > 70 THEN "fraudulent"
    ELSE IF score >= 40 THEN "suspicious"
    ELSE IF score >= 20 THEN "unclear"
    ELSE "authentic"

\* Verdict thresholds.
VerdictBand(score) ==
    IF score >= 70 THEN "fraudulent"
    ELSE IF score >= 40 THEN "suspicious"
    ELSE IF score >= 20 THEN "unclear"
    ELSE "authentic"

\* Border colour of the summary banner of ForensicFindingsDisplay.
BannerColor(manipulationScore) ==
    IF manipulationScore >= 70 THEN "border-l-red-500"
    ELSE IF manipulationScore >= 40 THEN "border-l-yellow-500"
    ELSE "border-l-green-500"

\* Variant of ManipulationVerdict that adds points when an amount is claimed.
ManipulationVerdictBiased(f, ctx) ==
    LET s == Min(100, Score(f) + (IF ctx.amount # <<>> THEN 10 ELSE 0)) IN
    [score |-> s, band |-> VerdictBand(s), mentions |-> ctx]

\* score(): the score, its band, and findings whose text mentions the context.
ManipulationVerdict(f, ctx) ==
    [score |-> Score(f), band |-> VerdictBand(Score(f)), mentions |-> ctx]

\* Variant of AllDetected that is satisfied by the first detector to return.
SomeDetected == \E d \in Detectors : detected[d] # <<>>

\* The detectors run concurrently and the scorer waits for all of them.
AllDetected == \A d \in Detectors : detected[d] # <<>>

\* A run is given an image and, optionally, a context.
InitScore ==
    /\ PipelineCreated
    /\ MarketDeployed
    /\ ViewerAtRest
    /\ UiAtRest
    /\ attached = <<>>
    /\ image \in [Detectors -> Signals]
    /\ context \in Contexts
    /\ detected = [d \in Detectors |-> <<>>]
    /\ firstDone = <<>>
    /\ verdict = <<>>
    /\ prior = <<>>

\* Detector d returns its finding; the detectors finish in any order.
Detect(d) ==
    /\ verdict = <<>>
    /\ detected[d] = <<>>
    /\ detected' = [detected EXCEPT ![d] = DetectorFindings(image)[d]]
    /\ firstDone' = IF firstDone = <<>> THEN <<d>> ELSE firstDone
    /\ UNCHANGED <<image, context, verdict, prior, notScorerVars>>

\* The scorer combines the findings into the verdict of the run.
ScoreVerdict ==
    /\ verdict = <<>>
    /\ AllDetected
    /\ verdict' = <<ManipulationVerdict(detected, context)>>
    /\ UNCHANGED <<image, context, detected, firstDone, prior, notScorerVars>>

\* The same image is verified again, with a context of the caller's choice.
Rerun(ctx) ==
    /\ verdict # <<>>
    /\ prior = <<>>
    /\ prior' = <<[verdict |-> verdict[1], context |-> context, firstDone |-> firstDone]>>
    /\ context' = ctx
    /\ detected' = [d \in Detectors |-> <<>>]
    /\ firstDone' = <<>>
    /\ verdict' = <<>>
    /\ UNCHANGED <<image, notScorerVars>>

NextScore ==
    \/ \E d \in Detectors : Detect(d)
    \/ ScoreVerdict
    \/ \E ctx \in Contexts : Rerun(ctx)

SpecScore == InitScore /\ [][NextScore]_vars

\* C11: the band of a score is authentic below 20, unclear from 20 to 39,
\* suspicious from 40 to 69 and fraudulent from 70 on, so every score from 0
\* to 100 has exactly one band; the verdict of a run carries the band of its
\* score, and the summary banner changes colour only where the band changes.
C11_VerdictBand ==
    verdict # <<>> =>
       /\ verdict[1].score \in 0..100
       /\ verdict[1].band = VerdictBand(verdict[1].score)
       /\ \A s \in 0..100 :
             /\ VerdictBand(s) = "authentic" <=> s < 20
             /\ VerdictBand(s) = "unclear" <=> s \in 20..39
             /\ VerdictBand(s) = "suspicious" <=> s \in 40..69
             /\ VerdictBand(s) = "fraudulent" <=> s >= 70
             /\ BannerColor(s) = "border-l-red-500" <=> VerdictBand(s) = "fraudulent"
             /\ BannerColor(s) = "border-l-yellow-500" <=> VerdictBand(s) = "suspicious"
             /\ BannerColor(s) = "border-l-green-500"
                   <=> VerdictBand(s) \in {"authentic", "unclear"}

\* A run scored exactly 70, the lowest fraudulent score.
C11_Witness == verdict # <<>> /\ verdict[1].score = 70 /\ verdict[1].band = "fraudulent"

\* C12: every contribution lies within its component's budget (40, 40, 30,
\* 20 and 10 points), the score is their sum capped at 100 and so an integer
\* from 0 to 100, and raising the signal of any one detector never lowers it.
C12_ScoreBoundedMonotone ==
    /\ \A d \in Detectors :
          detected[d] # <<>> =>
             /\ detected[d][1].signal \in 0..Budget(d)
             /\ detected[d][1].signal = Contribution(d, image[d])
    /\ verdict # <<>> =>
          /\ verdict[1].score \in 0..100
          /\ verdict[1].score = Min(100, SumSignals(DetectorFindings(image), NumDetectors))
          /\ \A d \in Detectors :
                image[d] < MaxSignal =>
                   Score(DetectorFindings([image EXCEPT ![d] = @ + 1]))
                      >= verdict[1].score

\* A run whose contributions add up to more than 100 points.
C12_Witness ==
    /\ verdict # <<>>
    /\ SumSignals(detected, NumDetectors) > 100
    /\ verdict[1].score = 100

Severities == {40, 60, 80}
Boxes == {[width |-> 1, height |-> 1], [width |-> 2, height |-> 1]}
Regions == {[severity |-> v, width |-> b.width, height |-> b.height] :
               v \in Severities, b \in Boxes}

RECURSIVE RegionLists(_)
RegionLists(n) ==
    IF n = 0 THEN {<<>>}
    ELSE RegionLists(n - 1)
         \cup {Append(l, r) : l \in {m \in RegionLists(n - 1) : Len(m) = n - 1},
                              r \in Regions}

\* (a, b) => b.severity - a.severity
BySeverity(a, b) == b.severity - a.severity

\* Array.prototype.sort is stable: r goes behind every element that the
\* comparator does not order after it.
RECURSIVE InsertSorted(_, _)
InsertSorted(sorted, r) ==
    IF sorted = <<>> THEN <<r>>
    ELSE IF BySeverity(sorted[Len(sorted)], r) <= 0 THEN Append(sorted, r)
    ELSE Append(InsertSorted(SubSeq(sorted, 1, Len(sorted) - 1), r),
                sorted[Len(sorted)])

RECURSIVE SortRegions(_)
SortRegions(s) ==
    IF s = <<>> THEN <<>>
    ELSE InsertSorted(SortRegions(SubSeq(s, 1, Len(s) - 1)), s[Len(s)])

\* .slice(0, 10)
ListLimit == 10
Slice(s) == SubSeq(s, 1, Min(ListLimit, Len(s)))

Area(r) == r.width * r.height

\* The viewer is mounted with the regions of an analysis.
InitRegions ==
    /\ PipelineCreated
    /\ MarketDeployed
    /\ ScorerAtRest
    /\ UiAtRest
    /\ attached = <<>>
    /\ suspiciousRegions \in RegionLists(MaxRegions)
    /\ listed = <<>>

\* The list card is rendered when there is a region: the prop array is
\* sorted in place and its first rows are shown.
RenderRegionList ==
    /\ Len(suspiciousRegions) > 0
    /\ suspiciousRegions' = SortRegions(suspiciousRegions)
    /\ listed' = <<Slice(suspiciousRegions')>>
    /\ UNCHANGED notViewerVars

\* Without a region the card is left out.
RenderNoList ==
    /\ Len(suspiciousRegions) = 0
    /\ listed' = <<<<>>>>
    /\ UNCHANGED <<suspiciousRegions, notViewerVars>>

NextRegions ==
    \/ RenderRegionList
    \/ RenderNoList

SpecRegions == InitRegions /\ [][NextRegions]_vars

\* C15: the listed regions are in descending order of severity, and of two
\* regions of equal severity the one with the larger area comes first.
C15_SortedBySeverityThenArea ==
    listed # <<>> =>
       \A i, j \in 1..Len(listed[1]) :
          i < j =>
             \/ listed[1][i].severity > listed[1][j].severity
             \/ /\ listed[1][i].severity = listed[1][j].severity
                /\ Area(listed[1][i]) >= Area(listed[1][j])

\* ===================================================== details round trip
ProgressAgents == {"vision", "forensic"}

\* An agent reports progress with a details dict of its choice; the emitter
\* sanitizes the dict and writes the flat update.
EmitWithDetails(agent, d, raised) ==
    LET ev == Event(agent, "ANALYZING", StagePct("ANALYZING"), clock + 1, d) IN
    /\ clock < MaxEvents
    /\ (raised => \E k \in DetailKeys : d[k] \in NonPrimitive)
    /\ clock' = clock + 1
    /\ doc' = EmitProgress(doc, ev, raised)
    /\ pending' = Publish(<<doc'>>)
    /\ attached' = Append(attached, SanitizeDetails(d, raised))
    /\ UNCHANGED <<orchVars, hookVars, scorerVars, viewerVars, marketVars, uiVars>>

NextDetails ==
    \/ \E agent \in ProgressAgents, d \in DetailInputs \cup {NoDetails}, raised \in BOOLEAN :
          EmitWithDetails(agent, d, raised)
    \/ Deliver

SpecDetails == Init /\ [][NextDetails]_vars

\* C16: the details handed to onProgress with an event are the details the
\* emitter attached to that event: every key it attached comes back with the
\* value written, and no other key, in particular none of an earlier event.
C16_DetailsRoundTrip ==
    lastProgress # <<>> =>
        lastProgress[1].details = attached[lastProgress[1].timestamp]

\* ============================================================ marketplace
platformFeePercent == 2
platformWallet == Deployer

\* Callers and arguments of the transactions.
Providers == {"agentA", "agentB"}
Requesters == {"client"}
OfferedTypes == {ServiceType[1], ServiceType[2]}
Prices == {0, 50}
NewPrices == {0, 100}
Payments == {49, 99, 150}

\* block.timestamp: every transaction that registers an agent, creates a
\* request or completes one is mined in a block of its own.
now == 1 + Len(allAgents) + requestCounter + Len(completions)

\* requests[_requestId]
RequestAt(id) == IF id \in 1..Len(requests) THEN requests[id] ELSE ZeroRequest

\* A failed require reverts with its message: the transaction changes nothing.
Revert(error) == UNCHANGED marketVars

\* The outcome of a view call: the address returned, or the revert message.
Return(ret) == [ok |-> TRUE, error |-> "", ret |-> ret]
Reverted(error) == [ok |-> FALSE, error |-> error, ret |-> ZeroAddress]

\* Variant of registerAgent without the check for an earlier registration.
registerAgentAgain(sender, _agentId, _serviceType, _pricePerRequest) ==
    /\ UNCHANGED notMarketVars
    /\ _pricePerRequest > 0
    /\ agents' = [agents EXCEPT ![sender] =
                     [ZeroAgent EXCEPT !.agentAddress = sender,
                                       !.agentId = _agentId,
                                       !.serviceType = _serviceType,
                                       !.pricePerRequest = _pricePerRequest,
                                       !.reputationScore = 500,
                                       !.isActive = TRUE,
                                       !.registeredAt = now]]
    /\ allAgents' = Append(allAgents, sender)
    /\ agentsByService' = [agentsByService EXCEPT ![_serviceType] = Append(@, sender)]
    /\ UNCHANGED <<requests, requestCounter, balance, completions>>

registerAgent(sender, _agentId, _serviceType, _pricePerRequest) ==
    LET newAgent == [agentAddress |-> sender,
                     agentId |-> _agentId,
                     serviceType |-> _serviceType,
                     pricePerRequest |-> _pricePerRequest,
                     totalRequests |-> 0,
                     successfulRequests |-> 0,
                     reputationScore |-> 500,
                     isActive |-> TRUE,
                     registeredAt |-> now] IN
    /\ UNCHANGED notMarketVars
    /\ IF agents[sender].agentAddress # ZeroAddress
       THEN Revert("Agent already registered")
       ELSE IF ~(_pricePerRequest > 0)
       THEN Revert("Price must be greater than 0")
       ELSE /\ agents' = [agents EXCEPT ![sender] = newAgent]
            /\ allAgents' = Append(allAgents, sender)
            /\ agentsByService' =
                  [agentsByService EXCEPT ![_serviceType] = Append(@, sender)]
            /\ UNCHANGED <<requests, requestCounter, balance, completions>>

\* Variant of requestService that accepts any payment.
requestServiceUnderpaid(sender, value, _provider, _serviceType, _dataHash) ==
    LET provider == agents[_provider] IN
    /\ requestCounter < MaxRequests
    /\ UNCHANGED notMarketVars
    /\ provider.isActive
    /\ provider.serviceType = _serviceType
    /\ requestCounter' = requestCounter + 1
    /\ requests' = Append(requests,
          [requestId |-> requestCounter + 1, requester |-> sender,
           provider |-> _provider, serviceType |-> _serviceType,
           amount |-> value, dataHash |-> _dataHash, status |-> "PENDING",
           createdAt |-> now, completedAt |-> 0])
    /\ agents' = [agents EXCEPT ![_provider].totalRequests = @ + 1]
    /\ balance' = balance + value
    /\ UNCHANGED <<agentsByService, allAgents, completions>>

\* msg.value is added to the contract's balance when the call succeeds.
requestService(sender, value, _provider, _serviceType, _dataHash) ==
    LET provider == agents[_provider]
        newRequest == [requestId |-> requestCounter + 1,
                       requester |-> sender,
                       provider |-> _provider,
                       serviceType |-> _serviceType,
                       amount |-> value,
                       dataHash |-> _dataHash,
                       status |-> "PENDING",
                       createdAt |-> now,
                       completedAt |-> 0] IN
    /\ requestCounter < MaxRequests
    /\ UNCHANGED notMarketVars
    /\ IF ~provider.isActive
       THEN Revert("Provider not active")
       ELSE IF provider.serviceType # _serviceType
       THEN Revert("Service type mismatch")
       ELSE IF ~(value >= provider.pricePerRequest)
       THEN Revert("Insufficient payment")
       ELSE /\ requestCounter' = requestCounter + 1
            /\ requests' = Append(requests, newRequest)
            /\ agents' = [agents EXCEPT ![_provider].totalRequests = @ + 1]
            /\ balance' = balance + value
            /\ UNCHANGED <<agentsByService, allAgents, completions>>

\* Variant of IsPending that accepts a request in any status.
IsAnyStatus(request) == request.status \in {RequestStatus[i] : i \in DOMAIN RequestStatus}

\* request.status == RequestStatus.PENDING
IsPending(request) == request.status = "PENDING"

\* Variant of PlatformFee that rounds the fee up.
PlatformFeeRoundedUp(amount) == (amount * platformFeePercent + 99) \div 100

\* (request.amount * platformFeePercent) / 100
PlatformFee(amount) == (amount * platformFeePercent) \div 100

\* Variant of completeService that any caller may invoke.
completeServiceByAnyone(sender, _requestId, _resultHash) ==
    LET request == RequestAt(_requestId)
        platformFee == PlatformFee(request.amount)
        providerAmount == request.amount - platformFee IN
    /\ UNCHANGED notMarketVars
    /\ _requestId \in 1..Len(requests)
    /\ IsPending(request)
    /\ requests' = [requests EXCEPT ![_requestId].status = "COMPLETED",
                                    ![_requestId].completedAt = now]
    /\ balance' = balance - providerAmount - platformFee
    /\ agents' = [agents EXCEPT ![request.provider].successfulRequests = @ + 1]
    /\ completions' = Append(completions,
          [requestId |-> _requestId, sender |-> sender,
           statusBefore |-> request.status,
           paid |-> <<[to |-> request.provider, amount |-> providerAmount],
                      [to |-> platformWallet, amount |-> platformFee]>>])
    /\ UNCHANGED <<agentsByService, allAgents, requestCounter>>

\* Variant of completeService that pays the provider and keeps the fee in
\* the contract.
completeServiceFeeKept(sender, _requestId, _resultHash) ==
    LET request == RequestAt(_requestId)
        providerAmount == request.amount - PlatformFee(request.amount) IN
    /\ UNCHANGED notMarketVars
    /\ request.provider = sender
    /\ IsPending(request)
    /\ requests' = [requests EXCEPT ![_requestId].status = "COMPLETED",
                                    ![_requestId].completedAt = now]
    /\ balance' = balance - providerAmount
    /\ agents' = [agents EXCEPT ![sender].successfulRequests = @ + 1]
    /\ completions' = Append(completions,
          [requestId |-> _requestId, sender |-> sender,
           statusBefore |-> request.status,
           paid |-> <<[to |-> sender, amount |-> providerAmount]>>])
    /\ UNCHANGED <<agentsByService, allAgents, requestCounter>>

\* Both transfers go to externally owned accounts and succeed when the
\* contract holds the amount; a division by zero is a panic. Either failure
\* reverts the transaction.
completeService(sender, _requestId, _resultHash) ==
    LET request == RequestAt(_requestId)
        platformFee == PlatformFee(request.amount)
        providerAmount == request.amount - platformFee
        provider == agents[request.provider]
        successful == provider.successfulRequests + 1 IN
    /\ UNCHANGED notMarketVars
    /\ IF request.provider # sender
       THEN Revert("Only provider can complete")
       ELSE IF ~IsPending(request)
       THEN Revert("Request not pending")
       ELSE IF balance < providerAmount + platformFee
       THEN Revert("transfer failed")
       ELSE IF provider.totalRequests = 0
       THEN Revert("Panic(0x12)")
       ELSE /\ requests' = [requests EXCEPT ![_requestId].status = "COMPLETED",
                                            ![_requestId].completedAt = now]
            /\ balance' = balance - providerAmount - platformFee
            /\ agents' = [agents EXCEPT
                             ![request.provider].successfulRequests = successful,
                             ![request.provider].reputationScore =
                                 (successful * 1000) \div provider.totalRequests]
            /\ completions' = Append(completions,
                  [requestId |-> _requestId,
                   sender |-> sender,
                   statusBefore |-> request.status,
                   paid |-> <<[to |-> request.provider, amount |-> providerAmount],
                              [to |-> platformWallet, amount |-> platformFee]>>])
            /\ UNCHANGED <<agentsByService, allAgents, requestCounter>>

\* Variant of IsBetter that prefers the lower score.
IsWorse(agent, highestScore) == agent.isActive /\ agent.reputationScore < highestScore

\* agent.isActive && agent.reputationScore > highestScore
IsBetter(agent, highestScore) == agent.isActive /\ agent.reputationScore > highestScore

\* The loop of getBestAgent from position i (counted from 1) on.
RECURSIVE BestFrom(_, _, _, _)
BestFrom(serviceAgents, i, bestAgent, highestScore) ==
    IF i > Len(serviceAgents) THEN bestAgent
    ELSE LET agent == agents[serviceAgents[i]] IN
         IF IsBetter(agent, highestScore)
         THEN BestFrom(serviceAgents, i + 1, serviceAgents[i], agent.reputationScore)
         ELSE BestFrom(serviceAgents, i + 1, bestAgent, highestScore)

\* A view function: its outcome in the current state of the contract.
getBestAgent(_serviceType) ==
    LET serviceAgents == agentsByService[_serviceType] IN
    IF ~(Len(serviceAgents) > 0)
    THEN Reverted("No agents for this service")
    ELSE Return(BestFrom(serviceAgents, 2, serviceAgents[1],
                         agents[serviceAgents[1]].reputationScore))

updatePrice(sender, _newPrice) ==
    /\ UNCHANGED notMarketVars
    /\ IF ~agents[sender].isActive
       THEN Revert("Agent not registered")
       ELSE IF ~(_newPrice > 0)
       THEN Revert("Price must be greater than 0")
       ELSE /\ agents' = [agents EXCEPT ![sender].pricePerRequest = _newPrice]
            /\ UNCHANGED <<requests, agentsByService, allAgents, requestCounter,
                           balance, completions>>

toggleActiveStatus(sender) ==
    /\ UNCHANGED notMarketVars
    /\ IF ~(agents[sender].agentAddress # ZeroAddress)
       THEN Revert("Agent not registered")
       ELSE /\ agents' = [agents EXCEPT ![sender].isActive = ~@]
            /\ UNCHANGED <<requests, agentsByService, allAgents, requestCounter,
                           balance, completions>>

\* View functions.
getTotalAgents == Len(allAgents)
getAgentsByService(_serviceType) == agentsByService[_serviceType]

NextMarket ==
    \/ \E sender \in Providers, t \in OfferedTypes, price \in Prices :
          registerAgent(sender, sender, t, price)
    \/ \E sender \in Requesters, value \in Payments, p \in Providers, t \in OfferedTypes :
          requestService(sender, value, p, t, "Qm")
    \/ \E sender \in Providers \cup Requesters, id \in 1..MaxRequests :
          completeService(sender, id, "Qm")
    \/ \E sender \in Providers, price \in NewPrices : updatePrice(sender, price)
    \/ \E sender \in Providers : toggleActiveStatus(sender)

SpecMarket == Init /\ [][NextMarket]_vars

\* C17: every completeService call that went through was made by the
\* provider of its request while the request was PENDING, and left the
\* request COMPLETED with completedAt set; a request is COMPLETED only
\* through such a call, and no request was paid out twice.
C17_CompletedOnceByProvider ==
    /\ \A i \in 1..Len(completions) :
          LET c == completions[i]
              request == RequestAt(c.requestId) IN
          /\ c.requestId \in 1..requestCounter
          /\ c.sender = request.provider
          /\ c.statusBefore = "PENDING"
          /\ request.status = "COMPLETED"
          /\ request.completedAt \in 1..now
          /\ request.completedAt >= request.createdAt
    /\ \A i, j \in 1..Len(completions) :
          i # j => completions[i].requestId # completions[j].requestId
    /\ \A id \in 1..Len(requests) :
          requests[id].status = "COMPLETED" =>
             \E i \in 1..Len(completions) : completions[i].requestId = id

\* One request has been completed while another one is still escrowed.
C17_Witness ==
    /\ Len(completions) = 1
    /\ RequestAt(completions[1].requestId).status = "COMPLETED"
    /\ \E id \in 1..Len(requests) : requests[id].status = "PENDING"

\* C18: completing a request pays floor(amount * 2 / 100) to platformWallet
\* and the rest of the escrowed amount to the provider, so the two payments
\* add up to the escrowed amount and leave the contract.
C18_FeeSplit ==
    \A i \in 1..Len(completions) :
       LET c == completions[i]
           request == RequestAt(c.requestId)
           fee == (request.amount * 2) \div 100 IN
       /\ c.paid = <<[to |-> request.provider, amount |-> request.amount - fee],
                     [to |-> platformWallet, amount |-> fee]>>
       /\ c.paid[1].amount + c.paid[2].amount = request.amount
       /\ balance >= 0

\* A completed request of 99, whose fee of 1.98 is cut to 1.
C18_Witness ==
    \E i \in 1..Len(completions) :
       /\ RequestAt(completions[i].requestId).amount = 99
       /\ completions[i].paid[2].amount = 1
       /\ completions[i].paid[1].amount = 98

\* C19: every registered agent's reputationScore lies in 0..1000; it is 500
\* while the agent has completed no request and
\* floor(successfulRequests * 1000 / totalRequests) once it has, with
\* successfulRequests <= totalRequests and totalRequests > 0 then.
C19_ReputationIsSuccessRate ==
    \A a \in Accounts :
       agents[a].agentAddress # ZeroAddress =>
          /\ agents[a].reputationScore \in 0..1000
          /\ agents[a].successfulRequests <= agents[a].totalRequests
          /\ agents[a].successfulRequests = 0 => agents[a].reputationScore = 500
          /\ agents[a].successfulRequests > 0 =>
                /\ agents[a].totalRequests > 0
                /\ agents[a].reputationScore =
                      (agents[a].successfulRequests * 1000) \div agents[a].totalRequests

\* C20: for a service type with registered agents getBestAgent returns one of
\* them, and no active agent of the type has a reputationScore above that of
\* the agent returned; for a type without agents it reverts with "No agents
\* for this service".
C20_BestAgentByReputation ==
    \A t \in ServiceTypes :
       LET out == getBestAgent(t)
           serviceAgents == agentsByService[t] IN
       IF Len(serviceAgents) = 0
       THEN ~out.ok /\ out.error = "No agents for this service"
       ELSE /\ out.ok
            /\ \E i \in 1..Len(serviceAgents) : serviceAgents[i] = out.ret
            /\ \A i \in 1..Len(serviceAgents) :
                  agents[serviceAgents[i]].isActive =>
                     agents[serviceAgents[i]].reputationScore
                        <= agents[out.ret].reputationScore

\* The agent registered second for a type is active, has the higher
\* reputationScore and is returned; another type has no agent.
C20_Witness ==
    \E t \in OfferedTypes :
       /\ Len(agentsByService[t]) = 2
       /\ agents[agentsByService[t][2]].isActive
       /\ agents[agentsByService[t][2]].reputationScore
             > agents[agentsByService[t][1]].reputationScore
       /\ getBestAgent(t).ret = agentsByService[t][2]
       /\ \E u \in OfferedTypes : ~getBestAgent(u).ok

\* C21: an address is registered at most once and only with a price above
\* 0: a step that touches the agent records or lists never alters the
\* registration of an address registered before it, allAgents and every
\* agentsByService list hold no address twice, an address is listed exactly
\* under the service type it registered with, and getTotalAgents is the
\* number of registered addresses.
C21_RegisteredOnce ==
    [][ <<agents, allAgents, agentsByService>>' = <<agents, allAgents, agentsByService>> \/
        /\ \A a \in Accounts :
              agents[a].agentAddress # ZeroAddress =>
                 /\ agents'[a].agentAddress = a
                 /\ agents'[a].agentId = agents[a].agentId
                 /\ agents'[a].serviceType = agents[a].serviceType
                 /\ agents'[a].registeredAt = agents[a].registeredAt
                 /\ agents'[a].totalRequests >= agents[a].totalRequests
                 /\ SubSeq(allAgents', 1, Len(allAgents)) = allAgents
        /\ \A a \in Accounts :
              agents'[a].agentAddress # ZeroAddress =>
                 /\ agents'[a].agentAddress = a
                 /\ agents'[a].pricePerRequest > 0
        /\ \A i, j \in 1..Len(allAgents') : i # j => allAgents'[i] # allAgents'[j]
        /\ \A t \in ServiceTypes :
              LET list == getAgentsByService(t)' IN
              /\ \A i, j \in 1..Len(list) : i # j => list[i] # list[j]
              /\ \A i \in 1..Len(list) : agents'[list[i]].serviceType = t
        /\ \A a \in Accounts :
              agents'[a].agentAddress # ZeroAddress <=>
                 \E i \in 1..Len(allAgents') : allAgents'[i] = a
        /\ getTotalAgents' =
              Cardinality({a \in Accounts : agents'[a].agentAddress # ZeroAddress})
      ]_vars

\* Both providers are registered, one of them has requests on its record:
\* every further registerAgent call is a second registration.
C21_Witness ==
    /\ getTotalAgents = 2
    /\ \A a \in Providers : agents[a].agentAddress = a
    /\ \E a \in Providers : agents[a].totalRequests > 0

RECURSIVE PendingEscrow(_)
PendingEscrow(n) ==
    IF n = 0 THEN 0
    ELSE PendingEscrow(n - 1)
         + (IF requests[n].status = "PENDING" THEN requests[n].amount ELSE 0)

\* C24: the contract's balance is the sum of the amounts of the PENDING
\* requests.
C24_EscrowConserved == balance = PendingEscrow(Len(requests))

\* One request of 99 has been paid out, one of 150 is still escrowed.
C24_Witness ==
    /\ Len(requests) = 2
    /\ \E i, j \in 1..2 :
          /\ requests[i].status = "COMPLETED" /\ requests[i].amount = 99
          /\ requests[j].status = "PENDING" /\ requests[j].amount = 150
    /\ balance = 150


\* C25: a request's status is only ever PENDING or COMPLETED; a new request
\* starts PENDING, a COMPLETED request never changes again, and a PENDING
\* request leaves that state only in a completeService step sent by its
\* provider, which pays out its whole amount and nothing to the requester; the
\* contract's balance never goes down in any other step.
C25_StatusLifecycle ==
    [][ /\ Len(requests') >= Len(requests)
        /\ \A i \in 1..Len(requests') :
              requests'[i].status \in {"PENDING", "COMPLETED"}
        /\ \A i \in (Len(requests) + 1)..Len(requests') :
              requests'[i].status = "PENDING"
        /\ \A i \in 1..Len(requests) :
              LET before == requests[i]
                  after == requests'[i] IN
              /\ after.requester = before.requester
              /\ after.provider = before.provider
              /\ after.amount = before.amount
              /\ before.status = "COMPLETED" => after = before
              /\ (before.status = "PENDING" /\ after.status # "PENDING") =>
                    /\ after.status = "COMPLETED"
                    /\ Len(completions') = Len(completions) + 1
                    /\ completions'[Len(completions')].requestId = i
                    /\ completions'[Len(completions')].sender = before.provider
                    /\ \A k \in 1..Len(completions'[Len(completions')].paid) :
                          completions'[Len(completions')].paid[k].to # before.requester
                    /\ balance' = balance - before.amount
        /\ balance' < balance =>
              \E i \in 1..Len(requests) :
                  /\ requests[i].status = "PENDING"
                  /\ requests'[i].status = "COMPLETED"
      ]_vars

\* Both requests were created and both were completed.
C25_Witness ==
    /\ Len(requests) = 2
    /\ Len(completions) = 2
    /\ \A i \in 1..2 : requests[i].status = "COMPLETED"

\* C26: request ids are 1, 2, ... in creation order and requestCounter is the
\* number of requests created; the counter only ever grows by one, together
\* with a new PENDING request to a provider that was active, offered the
\* requested type and was paid at least its price, and whose totalRequests
\* grows by one; a step that leaves the counter alone leaves every
\* totalRequests alone.
C26_SequentialIds ==
    /\ requestCounter = Len(requests)
    /\ [][ /\ requestCounter' = Len(requests')
           /\ \A i \in 1..Len(requests') : requests'[i].requestId = i
           /\ requestCounter' \in {requestCounter, requestCounter + 1}
           /\ requestCounter' = requestCounter + 1 =>
                 LET created == requests'[requestCounter']
                     provider == agents[created.provider] IN
                 /\ created.status = "PENDING"
                 /\ provider.isActive
                 /\ provider.serviceType = created.serviceType
                 /\ created.amount >= provider.pricePerRequest
                 /\ \A a \in Accounts :
                       agents'[a].totalRequests =
                          agents[a].totalRequests
                             + (IF a = created.provider THEN 1 ELSE 0)
           /\ requestCounter' = requestCounter =>
                 \A a \in Accounts :
                    agents'[a].totalRequests = agents[a].totalRequests
         ]_vars

\* Two requests were created, with ids 1 and 2, for the same provider.
C26_Witness ==
    /\ requestCounter = 2
    /\ requests[1].requestId = 1
    /\ requests[2].requestId = 2
    /\ requests[1].provider = requests[2].provider
    /\ agents[requests[1].provider].totalRequests = 2


\* ------------------------------------------------- agent activity display
notDisplayVars == <<pipelineVars, scorerVars, viewerVars, attached, marketVars,
                    listenerVars, bannerVars>>

\* The keys of agentConfig: the agents a progress event can name.
AgentNames == {"orchestrator", "vision", "forensic", "metadata", "reputation",
               "reasoning"}
AgentMessages == {"", "Analyzing pixel manipulation...", "Checking EXIF metadata..."}

\* Array.prototype.indexOf: the zero-based position of the first match, or -1.
indexOf(array, element) ==
    IF \E i \in DOMAIN array : array[i] = element
    THEN (CHOOSE i \in DOMAIN array :
             /\ array[i] = element
             /\ \A j \in DOMAIN array : array[j] = element => i <= j) - 1
    ELSE -1

\* The updater passed to setAgentStatuses: every agent listed before the
\* current one is completed, the current one is running with the message, the
\* others keep their entry.
UpdatedStatuses(prev, agent, msg) ==
    LET currentIndex == indexOf(agentOrder, agent) IN
    [a \in DisplayedAgents |->
        IF indexOf(agentOrder, a) < currentIndex
        THEN [prev[a] EXCEPT !.status = "completed"]
        ELSE IF a = agent
        THEN [prev[a] EXCEPT !.status = "running", !.message = <<msg>>]
        ELSE prev[a]]

\* The parent renders the component with a new currentAgent or message; the
\* effect, which depends on both, runs and updates the statuses when
\* currentAgent is set.
RenderProgress(agent, msg) ==
    /\ <<agent, msg>> # <<currentAgent, message>>
    /\ currentAgent' = agent
    /\ message' = msg
    /\ agentStatuses' = IF agent # <<>>
                        THEN UpdatedStatuses(agentStatuses, agent[1], msg)
                        ELSE agentStatuses
    /\ UNCHANGED notDisplayVars

NextDisplay ==
    \E agent \in {<<>>} \cup {<<a>> : a \in AgentNames}, msg \in AgentMessages :
        RenderProgress(agent, msg)

SpecDisplay == Init /\ [][NextDisplay]_vars

\* pending -> running -> completed
StatusRank(status) ==
    CASE status = "pending" -> 0
      [] status = "running" -> 1
      [] status = "completed" -> 2

listenerRestVars == <<orchVars, clock, doc, pending, lastProgress, nDistinct,
                      nComplete, nError, completeData, errorData, scorerVars,
                      viewerVars, attached, marketVars, displayVars, bannerVars>>

Receipts == {"receiptA", "receiptB"}
ReceiptIds == {<<>>} \cup {<<r>> : r \in Receipts}

\* What a snapshot of a receipt document holds, as far as the handler looks:
\* whether the progress fields are set, and the status with its analysis or
\* error.
Snapshots == [progress : BOOLEAN, status : {"processing", "completed", "failed"}]

\* The callbacks the snapshot handler invokes for a document, in order.
SnapshotCallbacks(data) ==
    (IF data.progress THEN <<"onProgress">> ELSE <<>>)
       \o (IF data.status = "completed" THEN <<"onComplete">> ELSE <<>>)
       \o (IF data.status = "failed" THEN <<"onError">> ELSE <<>>)

\* The hook's subscription state as one value.
HookState ==
    [subscriptions |-> subscriptions, unsubscribeRef |-> unsubscribeRef,
     isListening |-> isListening]

SetHookState(h) ==
    /\ subscriptions' = h.subscriptions
    /\ unsubscribeRef' = h.unsubscribeRef
    /\ isListening' = h.isListening
    /\ live' = (h.subscriptions # {})

\* The body of the subscribe effect for receipt id: nothing without an id,
\* otherwise setIsListening(true), onSnapshot on the receipt's document and
\* unsubscribeRef.current = unsubscribe.
SubscribeEffect(h, id) ==
    IF id = <<>>
    THEN h
    ELSE [subscriptions |-> h.subscriptions \cup {id[1]},
          unsubscribeRef |-> id,
          isListening |-> TRUE]

\* Variant of EffectCleanup that leaves the listener attached.
EffectCleanupKeepsListener(h, id) ==
    IF id = <<>> THEN h ELSE [h EXCEPT !.unsubscribeRef = <<>>, !.isListening = FALSE]
\* The cleanup the effect returned for receipt id (none if the effect
\* returned early): unsubscribe(), unsubscribeRef.current = null,
\* setIsListening(false).
EffectCleanup(h, id) ==
    IF id = <<>>
    THEN h
    ELSE [subscriptions |-> h.subscriptions \ {id[1]},
          unsubscribeRef |-> <<>>,
          isListening |-> FALSE]

\* The hook as mounted on a receipt, its listener attached.
InitListener ==
    /\ PipelineCreated
    /\ MarketDeployed
    /\ ScorerAtRest
    /\ ViewerAtRest
    /\ attached = <<>>
    /\ DisplayAtRest
    /\ BannerAtRest
    /\ receiptId \in {<<r>> : r \in Receipts}
    /\ mounted = TRUE
    /\ subscriptions = {receiptId[1]}
    /\ unsubscribeRef = receiptId
    /\ invoked = <<>>

\* The receiptId option changes: the cleanup of the previous effect runs, then
\* the effect for the new id.
ChangeReceipt(id) ==
    /\ mounted
    /\ id # receiptId
    /\ receiptId' = id
    /\ SetHookState(SubscribeEffect(EffectCleanup(HookState, receiptId), id))
    /\ UNCHANGED <<mounted, invoked, listenerRestVars>>

\* The component unmounts: the cleanup runs.
Unmount ==
    /\ mounted
    /\ mounted' = FALSE
    /\ SetHookState(EffectCleanup(HookState, receiptId))
    /\ UNCHANGED <<receiptId, invoked, listenerRestVars>>

\* A component mounts with the hook: fresh state and refs, then the effect.
Mount(id) ==
    /\ ~mounted
    /\ mounted' = TRUE
    /\ receiptId' = id
    /\ SetHookState(SubscribeEffect([subscriptions |-> subscriptions,
                                     unsubscribeRef |-> <<>>,
                                     isListening |-> FALSE], id))
    /\ UNCHANGED <<invoked, listenerRestVars>>

\* stopListening()
stopListening ==
    /\ IF unsubscribeRef # <<>>
       THEN SetHookState([subscriptions |-> subscriptions \ {unsubscribeRef[1]},
                          unsubscribeRef |-> <<>>,
                          isListening |-> FALSE])
       ELSE UNCHANGED <<subscriptions, unsubscribeRef, isListening, live>>
    /\ UNCHANGED <<receiptId, mounted, invoked, listenerRestVars>>

\* An attached listener is handed a snapshot of its receipt's document.
Snapshot(r, data) ==
    /\ r \in subscriptions
    /\ Len(invoked) + Len(SnapshotCallbacks(data)) <= MaxEvents
    /\ invoked' = invoked \o [i \in 1..Len(SnapshotCallbacks(data)) |->
                                 [receipt |-> r, callback |-> SnapshotCallbacks(data)[i]]]
    /\ UNCHANGED <<receiptId, mounted, subscriptions, unsubscribeRef, isListening,
                   live, listenerRestVars>>

\* An attached listener fails: it receives no further events;
\* setIsListening(false) and onError(error).
SnapshotError(r) ==
    /\ r \in subscriptions
    /\ Len(invoked) < MaxEvents
    /\ invoked' = Append(invoked, [receipt |-> r, callback |-> "onError"])
    /\ SetHookState([HookState EXCEPT !.subscriptions = @ \ {r}, !.isListening = FALSE])
    /\ UNCHANGED <<receiptId, mounted, listenerRestVars>>

NextListener ==
    \/ \E id \in ReceiptIds : ChangeReceipt(id)
    \/ Unmount
    \/ \E id \in ReceiptIds : Mount(id)
    \/ stopListening
    \/ \E r \in Receipts, data \in Snapshots : Snapshot(r, data)
    \/ \E r \in Receipts : SnapshotError(r)

SpecListener == InitListener /\ [][NextListener]_vars

\* C27: there is never more than one attached listener, and it is on the
\* document of the current receipt of a mounted component; isListening is true
\* only while a listener is attached; every callback invoked is for the
\* current receipt's document; and once unsubscribeRef is cleared (after
\* stopListening, unmount or a change to no receipt) nothing happens, a
\* further stopListening included, until the receipt changes or the
\* component mounts.
C27_OneIsolatedSubscription ==
    /\ [](/\ Cardinality(subscriptions) <= 1
          /\ subscriptions \subseteq
                (IF mounted /\ receiptId # <<>> THEN {receiptId[1]} ELSE {})
          /\ isListening => subscriptions # {}
          /\ unsubscribeRef = <<>> => ~isListening /\ subscriptions = {})
    /\ [][ /\ \A i \in (Len(invoked) + 1)..Len(invoked') :
                 /\ mounted
                 /\ receiptId = <<invoked'[i].receipt>>
                 /\ invoked'[i].receipt \in subscriptions
           /\ (unsubscribeRef = <<>> /\ receiptId' = receiptId /\ mounted' = mounted)
                 => UNCHANGED <<subscriptions, unsubscribeRef, isListening, invoked>>
         ]_vars

\* The receipt changed after a callback for the first one, the listener for
\* the second was stopped, and a callback for the first is the only one made.
C27_Witness ==
    /\ mounted
    /\ Len(invoked) = 1
    /\ receiptId # <<>>
    /\ receiptId # <<invoked[1].receipt>>
    /\ unsubscribeRef = <<>>
    /\ ~isListening


\* ------------------------------------------------ forensic findings banner
\* ForensicFinding.severity
FindingSeverity == {"pass", "medium", "high", "critical"}

\* The findings prop, by the severity of each finding.
FindingLists == UNION {[1..n -> FindingSeverity] : n \in 0..MaxFindings}

\* findings.filter(f => f.severity === 'critical' || f.severity === 'high')
criticalFindings(f) == SelectSeq(f, LAMBDA severity : severity \in {"critical", "high"})

\* findings.filter(f => f.severity === 'pass')
passedFindings(f) == SelectSeq(f, LAMBDA severity : severity = "pass")

\* The text the component shows above the findings: the alert when there are
\* none, otherwise the summary line with the number it interpolates.
SummaryBanner(f) ==
    IF Len(f) = 0
    THEN [text |-> "No detailed forensic findings available", n |-> 0]
    ELSE IF Len(criticalFindings(f)) > 0
    THEN [text |-> "n critical issue(s) detected", n |-> Len(criticalFindings(f))]
    ELSE [text |-> "All n forensic checks passed", n |-> Len(passedFindings(f))]

\* The component is given a list of findings.
InitFindings ==
    /\ PipelineCreated
    /\ MarketDeployed
    /\ ScorerAtRest
    /\ ViewerAtRest
    /\ attached = <<>>
    /\ DisplayAtRest
    /\ ListenerAtRest
    /\ findings \in FindingLists
    /\ banner = <<>>

\* The component renders.
RenderFindings ==
    /\ banner = <<>>
    /\ banner' = <<SummaryBanner(findings)>>
    /\ UNCHANGED <<pipelineVars, scorerVars, viewerVars, attached, marketVars,
                   displayVars, listenerVars, findings>>

NextFindings == RenderFindings

SpecFindings == InitFindings /\ [][NextFindings]_vars

\* C28: when the banner reads "All N forensic checks passed", every finding
\* has severity pass and N is the number of findings.
C28_AllPassedOnlyWhenAllPass ==
    (banner # <<>> /\ banner[1].text = "All n forensic checks passed") =>
        /\ \A i \in 1..Len(findings) : findings[i] = "pass"
        /\ banner[1].n = Len(findings)

============================================================================
